---- MODULE Spec2Model ----
(***************************************************************************)
(* Model of coding/finetune/pipeline.py: FinetunePipeline, the incremental *)
(* evaluation of discovered models with pickle checkpoints                 *)
(* (tasks_<id>.pkl, results_<id>.pkl) in one working directory, and its    *)
(* cleanup bound to the explicit call, weakref.finalize and atexit.        *)
(*                                                                         *)
(* One pipeline object lives in one process per competition id; the        *)
(* processes share the working directory.  One of the two sessions, focus, *)
(* is followed through evaluate, get_top_model and a kill at any point;    *)
(* the other one is constructed, cleans up and exits beside it, at any     *)
(* point of the first one's run.  The owner of a pipeline calls cleanup    *)
(* last, as start does (lines 155-158).  Scores are tenths (9 is 0.9).     *)
(*                                                                         *)
(* Beside it, coding/datasets/__init__.py: DatasetManager, whose datasets  *)
(* property builds the dict of dataset instances on its first read.  The   *)
(* pipeline does not use the manager; each has its own specification       *)
(* (Spec, SpecDatasets) over the common initial state.                     *)
(***************************************************************************)
EXTENDS Integers, Sequences, FiniteSets, TLC

(* ---------------------------------------------------------------- bounds *)
\* config.finetune_test_size, the n handed to generate_bigcode_tasks
TestSize == 1
\* longest list gather_all_trackers returns
MaxDiscover == 2
\* most instances of one dataset class the managers construct
MaxConstructed == 3

(* ------------------------------------------------------------- constants *)
\* coding.constants.COMPETITION_ID, the module-level constant imported at line 13
COMPETITION_ID == "A"
\* competition ids a pipeline is constructed with
Comps == {"A", "B"}
\* model names (model.model_name) the registry may list
Names == {"m1", "m2"}
\* values score() may return, in tenths
Scores == {0, 9}
\* samples BigCodeBenchDataset.get() may return
Samples == {0, 1}
\* Python None in a score field
None == -1
\* no exception left the call
NoError == <<>>
\* os.path.exists(file) is False
Absent == [exists |-> FALSE, data |-> <<>>]
\* the file exists and unpickles to data
File(data) == [exists |-> TRUE, data |-> data]
\* datasets/__init__.py lines 17-20: the classes of the dict literal, in the
\* order their constructors are called
Sources == <<"TheStackDataset", "PipDataset", "SWEDataset", "BigCodeBenchDataset">>
\* the DatasetManager objects followed
Managers == {"x", "y"}
\* self._datasets = None (line 10)
NoMapping == <<>>
\* nothing has been read from the manager yet
NotRead == [error |-> NoError, value |-> NoMapping]

VARIABLES
    focus,        \* the competition id of the session whose owner calls evaluate
    pc,           \* pc[c]: "none" (no process), "build", "idle", "eval", "done" (cleaned up),
                  \* "dropped" (the owner holds no reference any more)
    tasks,        \* self.tasks
    trackers,     \* self.trackers
    new_trackers, \* the local new_trackers of evaluate, scores as evaluate has set them
    idx,          \* position of the for loop of evaluate in new_trackers
    rerun,        \* this evaluate gathered what the evaluate before it had gathered
    raised,       \* the exceptions the last call on the session raised, in order
    tasksFile,    \* tasks_<c>.pkl, Absent or the pickled task list
    resultsFile   \* results_<c>.pkl, Absent or the pickled {"trackers": ...}

\* coding/datasets/__init__.py: the DatasetManager objects of a process
VARIABLES
    _datasets,    \* self._datasets of manager m: NoMapping (None) or the dict
    constructed,  \* constructed[i]: instances of class Sources[i] constructed so far
    returned      \* what the last read of manager m's datasets handed its caller

\* the state of the pipelines, the state of the dataset managers
pvars == <<focus, pc, tasks, trackers, new_trackers, idx, rerun, raised, tasksFile, resultsFile>>
dvars == <<_datasets, constructed, returned>>

vars == <<focus, pc, tasks, trackers, new_trackers, idx, rerun, raised, tasksFile, resultsFile,
          _datasets, constructed, returned>>

(* ---------------------------------------------------------------- helpers *)
Range(s) == {s[i] : i \in 1..Len(s)}

SeqsUpTo(S, n) == UNION {[1..k -> S] : k \in 0..n}

\* a TrackingInfo as gather_all_trackers returns it: no score yet
TrackingInfo(n, cid) == [name |-> n, cid |-> cid, score |-> None]

\* the lists gather_all_trackers may return
Discoveries == SeqsUpTo({TrackingInfo(n, cid) : n \in Names, cid \in Comps}, MaxDiscover)

(* ------------------------------------------------------------ evaluate *)
\* line 86 comparing the model object with the name: nothing is ever found
PreviousScoreNoMatch(ts, name) == None

\* line 86: next((t.score for t in self.trackers if t.model.model_name == name), None)
PreviousScore(ts, name) ==
    IF \E i \in 1..Len(ts) : ts[i].name = name
    THEN ts[CHOOSE i \in 1..Len(ts) :
                /\ ts[i].name = name
                /\ \A j \in 1..(i - 1) : ts[j].name # name].score
    ELSE None

\* the check of line 87 written as: if previous_score
HasPreviousTruthy(ts, name) == PreviousScore(ts, name) \notin {None, 0}

\* evaluate without the lookup of lines 86-90
HasPreviousNever(ts, name) == FALSE

\* line 87: if previous_score is not None
HasPrevious(ts, name) == PreviousScore(ts, name) # None

\* line 92: if tracking_info in self.trackers
AlreadyIn(ts, ti) == ti \in Range(ts)

\* line 99: if tracking_info.model.competition_id != COMPETITION_ID
Mismatch(c, ti) == ti.cid # COMPETITION_ID

\* line 75: FinetuneEventResults(trackers=self.trackers, competition_id=self.competition_id)
results(c) == [trackers |-> trackers[c], competition_id |-> c]

(* -------------------------------------------------------------- cleanup *)
\* line 145: os.remove raises FileNotFoundError when tasks_<c>.pkl is absent
CleanupRaises(c) == ~tasksFile[c].exists

\* lines 147-151: which files of the directory the listing loop removes
Removes(c, d) == TRUE

\* the files of one family after the loop of lines 147-151
Purged(files, c) == [d \in Comps |-> IF Removes(c, d) THEN Absent ELSE files[d]]

\* cleanup as a whole: the files it leaves and the exception it raises
CleanupTasks(c) == IF CleanupRaises(c) THEN tasksFile ELSE Purged(tasksFile, c)
CleanupResults(c) == IF CleanupRaises(c) THEN resultsFile ELSE Purged(resultsFile, c)
CleanupError(c) == IF CleanupRaises(c) THEN <<"FileNotFoundError">> ELSE NoError

\* line 161: atexit calls FinetunePipeline.cleanup() with no self
HookError == <<"TypeError">>

(* ---------------------------------------------------------- get_top_model *)
\* iterating a pydantic model (line 118 sorts self.results) yields its fields
IterResults(r) == << [key |-> "trackers", value |-> r.trackers],
                     [key |-> "competition_id", value |-> r.competition_id] >>

\* x.score of the key function of line 118
HasScore(x) == "score" \in DOMAIN x

\* the elements of items with the highest score
Highest(items) == {x \in Range(items) : \A y \in Range(items) : y.score <= x.score}

\* sorted(items, key=lambda x: x.score, reverse=True)[0]; the sort is stable
SortedFirst(items) ==
    IF \E i \in 1..Len(items) : ~HasScore(items[i])
    THEN [error |-> <<"AttributeError">>, value |-> <<>>]
    ELSE IF items = <<>>
    THEN [error |-> <<"IndexError">>, value |-> <<>>]
    ELSE [error |-> NoError,
          value |-> <<items[CHOOSE i \in 1..Len(items) :
                              /\ items[i] \in Highest(items)
                              /\ \A j \in 1..(i - 1) : items[j] \notin Highest(items)]>>]

\* get_top_model, lines 116-118
get_top_model(c) == SortedFirst(IterResults(results(c)))

(* ----------------------------------------------------------------- Init *)
Init ==
    /\ focus \in Comps
    /\ pc = [c \in Comps |-> "none"]
    /\ tasks = [c \in Comps |-> <<>>]
    /\ trackers = [c \in Comps |-> <<>>]
    /\ new_trackers = [c \in Comps |-> <<>>]
    /\ idx = [c \in Comps |-> 0]
    /\ rerun = [c \in Comps |-> FALSE]
    /\ raised = [c \in Comps |-> NoError]
    /\ tasksFile = [c \in Comps |-> Absent]
    /\ resultsFile = [c \in Comps |-> Absent]
    /\ _datasets = [m \in Managers |-> NoMapping]
    /\ constructed = [i \in 1..Len(Sources) |-> 0]
    /\ returned = [m \in Managers |-> NotRead]

(* --------------------------------------------------------- construction *)
\* load_results, lines 66-71
load_results(c) == IF resultsFile[c].exists THEN resultsFile[c].data ELSE <<>>

\* __init__ with tasks_<c>.pkl present: load_tasks reads it, load_results follows
ConstructLoad(c) ==
    /\ pc[c] = "none"
    /\ tasksFile[c].exists
    /\ tasks' = [tasks EXCEPT ![c] = tasksFile[c].data]
    /\ trackers' = [trackers EXCEPT ![c] = load_results(c)]
    /\ pc' = [pc EXCEPT ![c] = "idle"]
    /\ raised' = [raised EXCEPT ![c] = NoError]
    /\ UNCHANGED <<dvars, focus, new_trackers, idx, rerun, tasksFile, resultsFile>>

\* __init__ with no tasks_<c>.pkl: load_tasks enters generate_bigcode_tasks
ConstructBuild(c) ==
    /\ pc[c] = "none"
    /\ ~tasksFile[c].exists
    /\ tasks' = [tasks EXCEPT ![c] = <<>>]
    /\ pc' = [pc EXCEPT ![c] = "build"]
    /\ raised' = [raised EXCEPT ![c] = NoError]
    /\ UNCHANGED <<dvars, focus, trackers, new_trackers, idx, rerun, tasksFile, resultsFile>>

\* one iteration of the loop of generate_bigcode_tasks, lines 33-34
GenTask(c) ==
    /\ pc[c] = "build"
    /\ Len(tasks[c]) < TestSize
    /\ \E s \in Samples : tasks' = [tasks EXCEPT ![c] = Append(@, s)]
    /\ UNCHANGED <<dvars, focus, pc, trackers, new_trackers, idx, rerun, raised, tasksFile, resultsFile>>

\* what store_tasks pickles, lines 131-133
StoredTasks(c) == File(tasks[c])

\* the loop is over: store_tasks (line 64), then load_results (line 53)
StoreTasks(c) ==
    /\ pc[c] = "build"
    /\ Len(tasks[c]) = TestSize
    /\ tasksFile' = [tasksFile EXCEPT ![c] = StoredTasks(c)]
    /\ trackers' = [trackers EXCEPT ![c] = load_results(c)]
    /\ pc' = [pc EXCEPT ![c] = "idle"]
    /\ UNCHANGED <<dvars, focus, tasks, new_trackers, idx, rerun, raised, resultsFile>>

(* ------------------------------------------------------------- evaluate *)
\* lines 77-81: gather_all_trackers returns the current population
BeginEvaluate(c) ==
    /\ c = focus
    /\ pc[c] = "idle"
    /\ \E d \in Discoveries : new_trackers' = [new_trackers EXCEPT ![c] = d]
    /\ idx' = [idx EXCEPT ![c] = 1]
    /\ rerun' = [rerun EXCEPT ![c] = FALSE]
    /\ pc' = [pc EXCEPT ![c] = "eval"]
    /\ raised' = [raised EXCEPT ![c] = NoError]
    /\ UNCHANGED <<dvars, focus, tasks, trackers, tasksFile, resultsFile>>

\* the for loop of line 83 has a candidate left
InLoop(c) == pc[c] = "eval" /\ idx[c] <= Len(new_trackers[c])

\* tracking_info of the iteration
Current(c) == new_trackers[c][idx[c]]

\* tracking_info.score = s, and the loop moves on
SetScore(c, s) ==
    /\ new_trackers' = [new_trackers EXCEPT ![c][idx[c]].score = s]
    /\ idx' = [idx EXCEPT ![c] = @ + 1]

\* lines 86-94: the model was scored before, or the very record is in the list
UsePrevious(c) ==
    /\ InLoop(c)
    /\ HasPrevious(trackers[c], Current(c).name) \/ AlreadyIn(trackers[c], Current(c))
    /\ SetScore(c, IF HasPrevious(trackers[c], Current(c).name)
                   THEN PreviousScore(trackers[c], Current(c).name)
                   ELSE Current(c).score)
    /\ UNCHANGED <<dvars, focus, pc, tasks, trackers, rerun, raised, tasksFile, resultsFile>>

\* the mismatch branch falling through to lines 110-111: the 0.0 is recorded
RejectRecorded(c) ==
    /\ InLoop(c)
    /\ ~HasPrevious(trackers[c], Current(c).name)
    /\ ~AlreadyIn(trackers[c], Current(c))
    /\ Mismatch(c, Current(c))
    /\ SetScore(c, 0)
    /\ trackers' = [trackers EXCEPT ![c] = Append(@, [Current(c) EXCEPT !.score = 0])]
    /\ resultsFile' = [resultsFile EXCEPT ![c] = File(trackers'[c])]
    /\ UNCHANGED <<dvars, focus, pc, tasks, rerun, raised, tasksFile>>

\* lines 99-101: another competition's model gets 0.0 and is left out
Reject(c) ==
    /\ InLoop(c)
    /\ ~HasPrevious(trackers[c], Current(c).name)
    /\ ~AlreadyIn(trackers[c], Current(c))
    /\ Mismatch(c, Current(c))
    /\ SetScore(c, 0)
    /\ UNCHANGED <<dvars, focus, pc, tasks, trackers, rerun, raised, tasksFile, resultsFile>>

\* line 103 reached without the continue of line 90
ScoringNoSkip(c) ==
    /\ InLoop(c)
    /\ ~AlreadyIn(trackers[c], Current(c))
    /\ ~Mismatch(c, Current(c))

\* line 103 is reached: score() is called
Scoring(c) ==
    /\ InLoop(c)
    /\ ~HasPrevious(trackers[c], Current(c).name)
    /\ ~AlreadyIn(trackers[c], Current(c))
    /\ ~Mismatch(c, Current(c))

\* store_results pickling the record of this iteration only
StoredResultsLast(ts) == File(<<ts[Len(ts)]>>)

\* what store_results pickles, lines 135-139
StoredResults(ts) == File(ts)

\* line 110 as self.trackers.insert(0, tracking_info)
ScoreOkPrepend(c) ==
    /\ Scoring(c)
    /\ \E s \in Scores :
          /\ SetScore(c, s)
          /\ trackers' = [trackers EXCEPT ![c] = <<[Current(c) EXCEPT !.score = s]>> \o @]
    /\ resultsFile' = [resultsFile EXCEPT ![c] = File(trackers'[c])]
    /\ UNCHANGED <<dvars, focus, pc, tasks, rerun, raised, tasksFile>>

\* line 136 naming the file after the module constant: results_<COMPETITION_ID>.pkl
ScoreOkSharedFile(c) ==
    /\ Scoring(c)
    /\ \E s \in Scores :
          /\ SetScore(c, s)
          /\ trackers' = [trackers EXCEPT ![c] = Append(@, [Current(c) EXCEPT !.score = s])]
    /\ resultsFile' = [resultsFile EXCEPT ![COMPETITION_ID] = File(trackers'[c])]
    /\ UNCHANGED <<dvars, focus, pc, tasks, rerun, raised, tasksFile>>

\* lines 103-111: score() returns, the record is appended, store_results writes the list
ScoreOk(c) ==
    /\ Scoring(c)
    /\ \E s \in Scores :
          /\ SetScore(c, s)
          /\ trackers' = [trackers EXCEPT ![c] = Append(@, [Current(c) EXCEPT !.score = s])]
    /\ resultsFile' = [resultsFile EXCEPT ![c] = StoredResults(trackers'[c])]
    /\ UNCHANGED <<dvars, focus, pc, tasks, rerun, raised, tasksFile>>

\* line 103: score() raises, nothing catches it, evaluate is left
ScoreFail(c) ==
    /\ Scoring(c)
    /\ pc' = [pc EXCEPT ![c] = "idle"]
    /\ raised' = [raised EXCEPT ![c] = <<"ScoringError">>]
    /\ new_trackers' = [new_trackers EXCEPT ![c] = <<>>]
    /\ idx' = [idx EXCEPT ![c] = 0]
    /\ rerun' = [rerun EXCEPT ![c] = FALSE]
    /\ UNCHANGED <<dvars, focus, tasks, trackers, tasksFile, resultsFile>>

\* lines 113-114: the loop is over, return self.results
EndEvaluate(c) ==
    /\ pc[c] = "eval"
    /\ idx[c] > Len(new_trackers[c])
    /\ pc' = [pc EXCEPT ![c] = "idle"]
    /\ new_trackers' = [new_trackers EXCEPT ![c] = <<>>]
    /\ idx' = [idx EXCEPT ![c] = 0]
    /\ rerun' = [rerun EXCEPT ![c] = FALSE]
    /\ UNCHANGED <<dvars, focus, tasks, trackers, raised, tasksFile, resultsFile>>

\* the list as gather_all_trackers returned it, before evaluate set scores
Gathered(d) == [i \in 1..Len(d) |-> TrackingInfo(d[i].name, d[i].cid)]

\* evaluate returns (lines 113-114), the owner calls it again at once and
\* gather_all_trackers (line 80) returns what it returned before
EvaluateAgain(c) ==
    /\ pc[c] = "eval"
    /\ idx[c] > Len(new_trackers[c])
    /\ ~rerun[c]
    /\ new_trackers' = [new_trackers EXCEPT ![c] = Gathered(@)]
    /\ idx' = [idx EXCEPT ![c] = 1]
    /\ rerun' = [rerun EXCEPT ![c] = TRUE]
    /\ UNCHANGED <<dvars, focus, pc, tasks, trackers, raised, tasksFile, resultsFile>>

\* get_top_model called by the owner of the followed session
GetTop(c) ==
    /\ c = focus
    /\ pc[c] = "idle"
    /\ raised' = [raised EXCEPT ![c] = get_top_model(c).error]
    /\ UNCHANGED <<dvars, focus, pc, tasks, trackers, new_trackers, idx, rerun, tasksFile, resultsFile>>

(* ------------------------------------------------------------ lifecycle *)
\* pipeline.cleanup() called by the owner of the object (line 157)
ExplicitCleanup(c) ==
    /\ pc[c] \in {"idle", "done"}
    /\ tasksFile' = CleanupTasks(c)
    /\ resultsFile' = CleanupResults(c)
    /\ raised' = [raised EXCEPT ![c] = CleanupError(c)]
    /\ pc' = [pc EXCEPT ![c] = "done"]
    /\ UNCHANGED <<dvars, focus, tasks, trackers, new_trackers, idx, rerun>>

\* the owner drops its last reference to the pipeline (del pipeline, or the
\* name going out of scope): the callback registered at line 56 is the bound
\* method self.cleanup, which refers to the object, and the finalizer registry
\* holds the callback, so the object stays reachable and nothing is run.
\* Followed in the focus session.
Drop(c) ==
    /\ c = focus
    /\ pc[c] \in {"idle", "done"}
    /\ pc' = [pc EXCEPT ![c] = "dropped"]
    /\ UNCHANGED <<dvars, focus, tasks, trackers, new_trackers, idx, rerun, raised,
                   tasksFile, resultsFile>>

\* the process is gone and its memory with it
Gone(c) ==
    /\ pc' = [pc EXCEPT ![c] = "none"]
    /\ tasks' = [tasks EXCEPT ![c] = <<>>]
    /\ trackers' = [trackers EXCEPT ![c] = <<>>]
    /\ new_trackers' = [new_trackers EXCEPT ![c] = <<>>]
    /\ idx' = [idx EXCEPT ![c] = 0]
    /\ rerun' = [rerun EXCEPT ![c] = FALSE]
    /\ UNCHANGED <<dvars, focus>>

\* the interpreter exits after the last call, on its exception if it raised one:
\* the finalizer of line 56 is still alive (its callback self.cleanup holds the
\* object) and calls cleanup, then the hook of line 161 is called without self
Exit(c) ==
    /\ pc[c] \in {"idle", "done", "dropped"}
    /\ tasksFile' = CleanupTasks(c)
    /\ resultsFile' = CleanupResults(c)
    /\ raised' = [raised EXCEPT ![c] = @ \o CleanupError(c) \o HookError]
    /\ Gone(c)

\* the process of the followed session is terminated from outside, at any
\* point: no finalizer, no exit hook
Kill(c) ==
    /\ c = focus
    /\ pc[c] # "none"
    /\ raised' = [raised EXCEPT ![c] = NoError]
    /\ Gone(c)
    /\ UNCHANGED <<tasksFile, resultsFile>>

Next ==
    \E c \in Comps :
        \/ ConstructLoad(c)
        \/ ConstructBuild(c)
        \/ GenTask(c)
        \/ StoreTasks(c)
        \/ BeginEvaluate(c)
        \/ UsePrevious(c)
        \/ Reject(c)
        \/ ScoreOk(c)
        \/ ScoreFail(c)
        \/ EndEvaluate(c)
        \/ EvaluateAgain(c)
        \/ GetTop(c)
        \/ ExplicitCleanup(c)
        \/ Drop(c)
        \/ Exit(c)
        \/ Kill(c)

Spec == Init /\ [][Next]_vars

(* ======================================================== DatasetManager *)
\* DatasetManager(config), lines 9-11: a new manager takes the place of m
NewManager(m) ==
    /\ _datasets' = [_datasets EXCEPT ![m] = NoMapping]
    /\ returned' = [returned EXCEPT ![m] = NotRead]
    /\ UNCHANGED <<constructed, pvars>>

\* the constructors of Sources[1..k] have returned an instance each
Built(k) == [i \in 1..Len(Sources) |-> IF i <= k THEN constructed[i] + 1 ELSE constructed[i]]

\* the dict of lines 16-21: class i maps to the instance just constructed
Mapping == Built(Len(Sources))

\* a constructor raising while the dict is filled key by key into self._datasets
DatasetsFailPartial(m) ==
    /\ _datasets[m] = NoMapping
    /\ constructed[1] < MaxConstructed
    /\ \E k \in 1..Len(Sources) :
          /\ constructed' = Built(k - 1)
          /\ _datasets' = [_datasets EXCEPT ![m] = SubSeq(Mapping, 1, k - 1)]
    /\ returned' = [returned EXCEPT ![m] = [error |-> <<"ConstructionError">>, value |-> NoMapping]]
    /\ UNCHANGED pvars

\* datasets read with self._datasets None (line 15), every constructor of the
\* dict literal returns: the dict is assigned (line 16) and returned (line 22)
DatasetsBuild(m) ==
    /\ _datasets[m] = NoMapping
    /\ constructed[1] < MaxConstructed
    /\ constructed' = Mapping
    /\ _datasets' = [_datasets EXCEPT ![m] = Mapping]
    /\ returned' = [returned EXCEPT ![m] = [error |-> NoError, value |-> Mapping]]
    /\ UNCHANGED pvars

\* datasets read with self._datasets None, the constructor of Sources[k]
\* raises: the literal of lines 16-21 is abandoned before the assignment
DatasetsFail(m) ==
    /\ _datasets[m] = NoMapping
    /\ constructed[1] < MaxConstructed
    /\ \E k \in 1..Len(Sources) : constructed' = Built(k - 1)
    /\ returned' = [returned EXCEPT ![m] = [error |-> <<"ConstructionError">>, value |-> NoMapping]]
    /\ UNCHANGED <<_datasets, pvars>>

\* datasets read with self._datasets set: line 15 is false, line 22 returns it
DatasetsCached(m) ==
    /\ _datasets[m] # NoMapping
    /\ returned' = [returned EXCEPT ![m] = [error |-> NoError, value |-> _datasets[m]]]
    /\ UNCHANGED <<_datasets, constructed, pvars>>

NextDatasets ==
    \E m \in Managers :
        \/ NewManager(m)
        \/ DatasetsBuild(m)
        \/ DatasetsFail(m)
        \/ DatasetsCached(m)

SpecDatasets == Init /\ [][NextDatasets]_vars

(* ================================================================ claims *)
\* the records of ts for model name n that carry a score
Scored(ts, n) == {t \in Range(ts) : t.name = n /\ t.score # None}

\* session c calls score() in this step
CallsScore(c) == ScoreOk(c) \/ ScoreFail(c)

\* the loop of session c finishes the candidate at idx[c] in this step
Handles(c) == InLoop(c) /\ pc'[c] = "eval" /\ idx'[c] = idx[c] + 1

\* the score evaluate has left in the candidate it just handled
Given(c) == new_trackers'[c][idx[c]].score

\* C1: a candidate whose model already has a record with a score in
\* self.trackers is never handed to score(); evaluate gives it the stored score
\* and leaves the accumulated list as it is.
C1_NoRescore ==
    [][\A c \in Comps :
          (InLoop(c) /\ Scored(trackers[c], Current(c).name) # {}) =>
              /\ ~CallsScore(c)
              /\ Handles(c) =>
                    /\ \E t \in Scored(trackers[c], Current(c).name) : Given(c) = t.score
                    /\ trackers'[c] = trackers[c]]_vars

\* C1 witness: in a second evaluate over the same list, the first candidate has
\* been handled and carries the 0.9 stored by the first evaluate.
C1_Witness ==
    \E c \in Comps :
        /\ rerun[c]
        /\ idx[c] > 1
        /\ new_trackers[c][1].score = 9
        /\ Scored(trackers[c], new_trackers[c][1].name) # {}

\* no model name occurs twice in ts
UniqueNames(ts) == \A i, j \in 1..Len(ts) : ts[i].name = ts[j].name => i = j

\* C2: each model name occurs at most once in self.trackers and at most once
\* in results_<c>.pkl, for every competition id, in every reachable state.
C2_UniqueIdentity ==
    \A c \in Comps : UniqueNames(trackers[c]) /\ UniqueNames(resultsFile[c].data)

\* C2 witness: the gathered list named the same model twice, both entries have
\* been handled, and the list and the checkpoint hold that model once.
C2_Witness ==
    \E c \in Comps :
        /\ pc[c] = "eval"
        /\ Len(new_trackers[c]) = 2
        /\ idx[c] = 3
        /\ new_trackers[c][1].name = new_trackers[c][2].name
        /\ Len(trackers[c]) = 1
        /\ trackers[c][1].name = new_trackers[c][1].name
        /\ resultsFile[c] = File(trackers[c])

\* C3: a gathered candidate whose competition_id differs from the
\* competition_id the pipeline was constructed with, and whose model has no
\* stored score, is never handed to score() and is given exactly 0.0.
C3_MismatchGetsZero ==
    [][\A c \in Comps :
          (InLoop(c) /\ Current(c).cid # c /\ Scored(trackers[c], Current(c).name) = {}) =>
              /\ ~CallsScore(c)
              /\ Handles(c) => Given(c) = 0]_vars

\* C4: when score() raises, the exception leaves evaluate, results_<c>.pkl
\* holds exactly the records accumulated up to then (the earlier ones and the
\* ones scored in this run before the failure), nothing more is scored in the
\* run, and what has a stored score is not scored again by a later run.
C4_FailureKeepsProgress ==
    [][\A c \in Comps :
          /\ ScoreFail(c) =>
                /\ pc'[c] = "idle" /\ raised'[c] = <<"ScoringError">>
                /\ trackers'[c] = trackers[c]
                /\ load_results(c)' = trackers[c]
          /\ CallsScore(c) => Scored(trackers[c], Current(c).name) = {}]_vars

\* C5: when the process exits on the failure of score(), finalizer and exit
\* hook firing, the checkpoints of its competition id still hold the task set
\* and the records persisted so far, for the restarted process to load.
C5_RestartResumes ==
    [][\A c \in Comps :
          (raised[c] = <<"ScoringError">> /\ Exit(c)) =>
              /\ tasksFile'[c] = File(tasks[c])
              /\ load_results(c)' = trackers[c]]_vars

\* session c runs cleanup in this step, by the explicit call or by the finalizer
RunsCleanup(c) == ExplicitCleanup(c) \/ Exit(c)

\* C6: whatever files exist, cleanup raises nothing and afterwards neither
\* tasks_<c>.pkl nor results_<c>.pkl exists; this holds of a repeated cleanup too.
C6_CleanupIdempotent ==
    [][\A c \in Comps :
          RunsCleanup(c) =>
              /\ ~CleanupRaises(c)
              /\ ~tasksFile'[c].exists
              /\ load_results(c)' = <<>>]_vars

\* C7: the cleanup of one competition id leaves the tasks and results
\* checkpoints of every other competition id as they are.
C7_CleanupScoped ==
    [][\A c, d \in Comps :
          (RunsCleanup(c) /\ d # c) =>
              /\ tasksFile'[d] = tasksFile[d]
              /\ resultsFile'[d] = resultsFile[d]]_vars

\* session c went down on the failure of score()
Crashed(c) == pc[c] = "none" /\ raised[c] # NoError /\ Head(raised[c]) = "ScoringError"

\* C8: a tasks checkpoint holds TestSize tasks, never fewer; a constructed
\* pipeline holds TestSize tasks; a pipeline constructed over a checkpoint
\* loads it; and the process restarted after a crash in evaluate loads the
\* checkpointed task set rather than building a new one.
C8_TaskSetStable ==
    [][\A c \in Comps :
          /\ tasksFile'[c].exists => Len(tasksFile'[c].data) = TestSize
          /\ pc'[c] \in {"idle", "eval", "done"} => Len(tasks'[c]) = TestSize
          /\ ConstructLoad(c) => tasks'[c] = tasksFile[c].data
          /\ Crashed(c) => ~ConstructBuild(c)]_vars

\* a step of the evaluate of session c
EvaluateStep(c) ==
    UsePrevious(c) \/ Reject(c) \/ ScoreOk(c) \/ ScoreFail(c) \/ EndEvaluate(c)

\* C9: an evaluate that gathers what the evaluate before it gathered calls
\* score() for nothing, raises nothing, and changes neither self.trackers (so
\* it returns the same results, in the same order) nor any checkpoint.
C9_RerunIdempotent ==
    [][\A c \in Comps :
          (rerun[c] /\ EvaluateStep(c)) =>
              /\ ~CallsScore(c)
              /\ results(c)' = results(c)
              /\ resultsFile' = resultsFile
              /\ tasksFile' = tasksFile]_vars

\* C9 witness: the second evaluate over a list of a model of this competition
\* and a model of another one has handled both, one record is stored.
C9_Witness ==
    \E c \in Comps :
        /\ rerun[c]
        /\ Len(new_trackers[c]) = 2
        /\ idx[c] = 3
        /\ new_trackers[c][1].cid # new_trackers[c][2].cid
        /\ new_trackers[c][1].name # new_trackers[c][2].name
        /\ Len(trackers[c]) = 1

\* C10: get_top_model returns a record of self.trackers with the highest
\* score, and raises on an empty list.
C10_GetTop ==
    \A c \in Comps :
        pc[c] = "idle" =>
            IF trackers[c] = <<>>
            THEN get_top_model(c).error # NoError
            ELSE /\ get_top_model(c).error = NoError
                 /\ get_top_model(c).value # <<>>
                 /\ get_top_model(c).value[1] \in Highest(trackers[c])

\* C11: whenever the interpreter exits, the hook registered at line 161 runs
\* the purge and raises nothing, and afterwards neither tasks_<c>.pkl nor
\* results_<c>.pkl of the exiting session exists.
C11_ExitHookPurges ==
    [][\A c \in Comps :
          Exit(c) =>
              /\ "TypeError" \notin Range(raised'[c])
              /\ ~tasksFile'[c].exists
              /\ ~resultsFile'[c].exists]_vars

\* manager m's datasets property is read in this step
ReadsDatasets(m) == DatasetsBuild(m) \/ DatasetsFail(m) \/ DatasetsCached(m)

\* C12: constructing a manager constructs no dataset; the first read of
\* datasets that succeeds constructs one instance of every class, maps every
\* class to it and caches the mapping; a read with the mapping cached
\* constructs nothing and returns that mapping with the same instances; a read
\* in which a constructor fails raises to the caller and caches nothing.
C12_LazyRegistry ==
    [][\A m \in Managers :
          /\ NewManager(m) => constructed' = constructed /\ _datasets'[m] = NoMapping
          /\ (ReadsDatasets(m) /\ _datasets[m] = NoMapping /\ returned'[m].error = NoError) =>
                /\ \A i \in 1..Len(Sources) : constructed'[i] = constructed[i] + 1
                /\ Len(_datasets'[m]) = Len(Sources)
                /\ \A i \in 1..Len(Sources) : _datasets'[m][i] = constructed'[i]
                /\ returned'[m].value = _datasets'[m]
          /\ (ReadsDatasets(m) /\ _datasets[m] # NoMapping) =>
                /\ constructed' = constructed
                /\ _datasets'[m] = _datasets[m]
                /\ returned'[m] = [error |-> NoError, value |-> _datasets[m]]
          /\ (ReadsDatasets(m) /\ constructed' # constructed /\ _datasets'[m] = NoMapping) =>
                returned'[m].error # NoError
          /\ (ReadsDatasets(m) /\ returned'[m].error # NoError) =>
                _datasets'[m] = NoMapping]_vars

\* C12 witness: a manager whose first read failed after three constructors had
\* returned holds, after a second read, a full mapping of instances made by
\* that second read, and its caller has just been handed that mapping.
C12_Witness ==
    \E m \in Managers :
        /\ Len(_datasets[m]) = Len(Sources)
        /\ returned[m] = [error |-> NoError, value |-> _datasets[m]]
        /\ _datasets[m][1] = 2
        /\ _datasets[m][Len(Sources)] = 1

\* C13: when the mismatch branch or the scoring branch has handled a candidate,
\* the candidate's record, with the score it was given, is in self.trackers
\* and results_<c>.pkl holds the whole of self.trackers, before the loop takes
\* the next candidate.
C13_PersistAfterEach ==
    [][\A c \in Comps :
          ((Reject(c) \/ ScoreOk(c)) /\ Handles(c)) =>
              /\ new_trackers'[c][idx[c]] \in Range(trackers'[c])
              /\ resultsFile'[c] = File(trackers'[c])]_vars

\* s is the beginning of t
IsPrefix(s, t) == Len(s) <= Len(t) /\ SubSeq(t, 1, Len(s)) = s

\* C14: no step of an evaluate removes or moves a record of self.trackers; a
\* record is added at the end only, it is the candidate the loop is at, and
\* the loop only moves forward through the gathered list, so the returned
\* results list the earlier records first, in their order, then the records of
\* this run in the order of discovery.
C14_AppendOnlyOrder ==
    [][\A c \in Comps :
          /\ (trackers'[c] # trackers[c]
                /\ (BeginEvaluate(c) \/ EvaluateStep(c) \/ EvaluateAgain(c))) =>
                IsPrefix(trackers[c], trackers'[c])
          /\ (trackers'[c] # trackers[c] /\ EvaluateStep(c)) =>
                /\ trackers'[c] = Append(trackers[c], new_trackers'[c][idx[c]])
                /\ idx'[c] = idx[c] + 1
          /\ (pc[c] = "eval" /\ pc'[c] = "eval" /\ idx'[c] < idx[c]) => ~EvaluateStep(c)
          /\ EndEvaluate(c) => results(c)'.trackers = trackers[c]]_vars

\* C14 witness: a run that discovered a new model before a model recorded by
\* an earlier run has handled both: the earlier record is first, the new one
\* second.
C14_Witness ==
    \E c \in Comps :
        /\ pc[c] = "eval"
        /\ ~rerun[c]
        /\ idx[c] = 3
        /\ Len(trackers[c]) = 2
        /\ new_trackers[c][1].name = trackers[c][2].name
        /\ new_trackers[c][2].name = trackers[c][1].name
        /\ trackers[c][1].name # trackers[c][2].name

\* C15: a record of self.trackers that has a score stays in self.trackers as
\* long as the object lives, and no record of that model in self.trackers or
\* in results_<c>.pkl ever has another score; a record of results_<c>.pkl keeps
\* its score, process restarts included, as long as the file exists.
C15_ScoreImmutable ==
    [][\A c \in Comps :
          /\ \A t \in Range(trackers[c]) :
                (t.score # None /\ pc'[c] # "none") =>
                    /\ t \in Range(trackers'[c])
                    /\ \A u \in Range(trackers'[c]) \cup Range(resultsFile'[c].data) :
                          u.name = t.name => u.score = t.score
          /\ \A t \in Range(resultsFile[c].data) :
                /\ \A u \in Range(resultsFile'[c].data) : u.name = t.name => u.score = t.score
                /\ ConstructLoad(c) => t \in Range(trackers'[c])]_vars

\* C15 witness: a model scored 0.0 by an earlier run has been discovered again
\* and handled; its record and the checkpoint still say 0.0, and the candidate
\* has been given 0.0.
C15_Witness ==
    \E c \in Comps :
        /\ pc[c] = "eval"
        /\ idx[c] = 2
        /\ new_trackers[c][1].score = 0
        /\ ~Mismatch(c, new_trackers[c][1])
        /\ Len(trackers[c]) = 2
        /\ trackers[c][1].name = new_trackers[c][1].name
        /\ trackers[c][1].score = 0
        /\ resultsFile[c] = File(trackers[c])

\* C16: the finalizer registered at line 56 holds no reference to the
\* pipeline, so when the owner drops its last reference the object is
\* collected and the finalizer runs cleanup then, before the process exits:
\* after the drop tasks_<c>.pkl is gone, and so are the files cleanup removes
\* when it has not raised.
C16_FinalizerFiresOnDrop ==
    [][\A c \in Comps :
          Drop(c) =>
              /\ ~tasksFile'[c].exists
              /\ tasksFile' = CleanupTasks(c)
              /\ resultsFile' = CleanupResults(c)]_vars

\* results_<c>.pkl as load_results reads it: no file reads as no record
Checkpointed(c) == IF resultsFile[c].exists THEN resultsFile[c].data ELSE <<>>

\* C17: when the pipeline has been constructed and at every point between two
\* iterations of evaluate, its return included, results_<c>.pkl holds exactly
\* self.trackers, provided no cleanup has removed files since the pipeline
\* was constructed.  Every cleanup that removes anything removes tasks_<c>.pkl,
\* which only the constructor writes: the proviso is that the file exists.
C17_CheckpointMirrorsMemory ==
    \A c \in Comps :
        (pc[c] \in {"idle", "eval"} /\ tasksFile[c].exists) => Checkpointed(c) = trackers[c]

\* C17 witness: evaluate has scored two candidates, no cleanup has run, and
\* the checkpoint holds the two records of self.trackers.
C17_Witness ==
    \E c \in Comps :
        /\ pc[c] = "eval"
        /\ idx[c] = 3
        /\ tasksFile[c].exists
        /\ Len(trackers[c]) = 2
        /\ trackers[c][1].name = new_trackers[c][1].name
        /\ trackers[c][2].name = new_trackers[c][2].name
        /\ resultsFile[c] = File(trackers[c])

\* C18: every record of self.trackers, of results_<c>.pkl and of the returned
\* results is of a candidate that passed the competition check of line 99 and
\* carries a score that score() returned, whenever the list or the checkpoint
\* changes (both start empty); records appear in the step in which
\* score() returns and in no other step of an evaluate, and the step that
\* rejects a candidate changes neither the list nor the checkpoint.
C18_OnlyScoredMatches ==
    [][\A c \in Comps :
          /\ (trackers'[c] # trackers[c] \/ resultsFile'[c] # resultsFile[c]) =>
                \A t \in Range(trackers'[c]) \cup Range(resultsFile'[c].data)
                         \cup Range(results(c)'.trackers) :
                    /\ t.cid = COMPETITION_ID
                    /\ t.score \in Scores
          /\ (trackers'[c] # trackers[c] /\ EvaluateStep(c)) =>
                /\ ScoreOk(c)
                /\ new_trackers[c][idx[c]].cid = COMPETITION_ID
          /\ (InLoop(c) /\ Current(c).cid # COMPETITION_ID /\ Handles(c)) =>
                /\ trackers'[c] = trackers[c]
                /\ resultsFile' = resultsFile
                /\ \A t \in Range(trackers'[c]) \cup Range(resultsFile'[c].data) :
                      t # new_trackers'[c][idx[c]]]_vars

\* C18 witness: the run rejected its first candidate, which has its 0.0, and
\* scored its second one: the list and the checkpoint hold the second only.
C18_Witness ==
    \E c \in Comps :
        /\ pc[c] = "eval"
        /\ idx[c] = 3
        /\ new_trackers[c][1].cid # COMPETITION_ID
        /\ new_trackers[c][1].score = 0
        /\ new_trackers[c][1].name # new_trackers[c][2].name
        /\ trackers[c] = <<new_trackers[c][2]>>
        /\ resultsFile[c] = File(trackers[c])

\* session c performs an operation other than cleanup in this step
NonCleanupOp(c) ==
    \/ ConstructLoad(c) \/ ConstructBuild(c) \/ GenTask(c) \/ StoreTasks(c)
    \/ BeginEvaluate(c) \/ EvaluateStep(c) \/ EvaluateAgain(c) \/ GetTop(c)

\* C19: an operation of the pipeline of competition id c other than cleanup
\* leaves tasks_<d>.pkl and results_<d>.pkl of every other id d as they are
\* (no step that changes one of them is such an operation), and what it
\* loads it loads from tasks_<c>.pkl and results_<c>.pkl.
C19_CheckpointsIsolated ==
    [][\A c \in Comps :
          /\ \A d \in Comps \ {c} :
                (tasksFile'[d] # tasksFile[d] \/ resultsFile'[d] # resultsFile[d]) =>
                    ~NonCleanupOp(c)
          /\ ConstructLoad(c) =>
                /\ tasks'[c] = tasksFile[c].data
                /\ trackers'[c] = Checkpointed(c)
          /\ StoreTasks(c) => trackers'[c] = Checkpointed(c)]_vars

\* C19 witness: the two sessions have their own, different task checkpoints,
\* one of them has stored a record, the other one's results checkpoint is absent.
C19_Witness ==
    \E c, d \in Comps :
        /\ d # c
        /\ pc[c] = "eval" /\ pc[d] = "idle"
        /\ tasksFile[c].exists /\ tasksFile[d].exists
        /\ tasksFile[c].data # tasksFile[d].data
        /\ Len(trackers[c]) = 1
        /\ resultsFile[c] = File(trackers[c])
        /\ ~resultsFile[d].exists
====
